---- MODULE Spec2Model ----
(***************************************************************************)
(* Model of shodan_ipcam_map.py: load_api_key, search_ipcams, create_map   *)
(* and main.  A run is one call of main (the script's entry point), or a   *)
(* direct call of search_ipcams or create_map with arguments drawn from    *)
(* bounded sets.                                                           *)
(*                                                                         *)
(* Python values: None is Null; a number n is Num(n); a dict is a record   *)
(* whose DOMAIN is the set of keys present; a list is a sequence.          *)
(***************************************************************************)
EXTENDS Integers, Sequences, FiniteSets, TLC

VARIABLES
    entry,        \* the function the run calls: "main", "search_ipcams", "create_map"
    pc,           \* position of the run
    envFile,      \* the .env file: Absent, or its sequence of lines
    api_key,      \* main: api_key, the value load_api_key returned
    resultLimit,  \* search_ipcams: the limit argument as passed by the caller
    limit,        \* search_ipcams: the local limit, decremented by the loop
    qi,           \* search_ipcams: index in queries of the next query of the for loop
    results,      \* search_ipcams: results
    last,         \* the latest api.search call and its outcome, Null before the first
    issued,       \* the number of api.search calls made
    rawTotal,     \* the number of matches the service has returned over all calls
    allRaised,    \* every query so far ended in the except clause
    honoured,     \* no response so far held more matches than its request asked for
    camera_data,  \* the argument of create_map / main's camera_data
    ret,          \* what create_map returned: Null (None) or [m |-> map, df |-> table]
    files,        \* the output files written so far: file name -> content
    invoked       \* the functions that have been called in this run

vars == <<entry, pc, envFile, api_key, resultLimit, limit, qi, results, last, issued,
          rawTotal, allRaised, honoured, camera_data, ret, files, invoked>>

(***************************************************************************)
(* Bounds of the model.                                                    *)
(***************************************************************************)
\* the largest limit a direct call of search_ipcams passes
MaxLimit == 2
\* the largest number of matches the service returns over one run
MaxRaw == 2
\* the longest record list a direct call of create_map passes
MaxRecs == 3

(***************************************************************************)
(* Python values.                                                          *)
(***************************************************************************)
Null == [t |-> "null"]
Num(n) == [t |-> "num", v |-> n]
Str(s) == [t |-> "str", v |-> s]

\* bool(x) for x None or a number: None and 0 are falsy
Truthy(x) == x # Null /\ x # Num(0)

\* d.get(k): the value under k, None when the key is absent
Get(d, k) == IF k \in DOMAIN d THEN d[k] ELSE Null

\* d.get(k, default)
GetDefault(d, k, default) == IF k \in DOMAIN d THEN d[k] ELSE default

Min(a, b) == IF a <= b THEN a ELSE b

RECURSIVE SumSeq(_)
SumSeq(s) == IF s = <<>> THEN 0 ELSE Head(s) + SumSeq(Tail(s))

RECURSIVE SeqsUpTo(_, _)
\* the sequences over S of length at most n
SeqsUpTo(S, n) ==
    IF n = 0 THEN {<<>>}
    ELSE LET shorter == SeqsUpTo(S, n - 1)
         IN  shorter \cup {Append(s, x) : s \in {t \in shorter : Len(t) = n - 1}, x \in S}

(***************************************************************************)
(* load_api_key                                                            *)
(***************************************************************************)
Absent == <<"<absent>">>

\* a line of .env is <<name, value>>, standing for the text name=value
EnvFiles ==
    { Absent,
      <<>>,
      << <<"OTHER", "x">> >>,
      << <<"SHODAN_API_KEY", "">> >>,
      << <<"OTHER", "x">>, <<"SHODAN_API_KEY", " ">> >>,
      << <<"SHODAN_API_KEY", "">>, <<"SHODAN_API_KEY", "k1">> >>,
      << <<"OTHER", "x">>, <<"SHODAN_API_KEY", "k2">>, <<"SHODAN_API_KEY", "k1">> >> }

\* str.strip() on the values the model uses
Strip(v) == IF v = " " THEN "" ELSE v

\* line.startswith('SHODAN_API_KEY=')
StartsWithKeyAnyLine(line) == TRUE
StartsWithKey(line) == line[1] = "SHODAN_API_KEY"

RECURSIVE FirstKeyLine(_)
\* the for loop over the lines: the stripped value of the first line that
\* starts with SHODAN_API_KEY=, None when there is none
FirstKeyLine(lines) ==
    IF lines = <<>> THEN Null
    ELSE IF StartsWithKey(Head(lines)) THEN Str(Strip(Head(lines)[2]))
    ELSE FirstKeyLine(Tail(lines))

load_api_key(f) == IF f = Absent THEN Null ELSE FirstKeyLine(f)

\* `not api_key`: None and the empty string are falsy
NoApiKey(k) == k = Null \/ k = Str("")

(***************************************************************************)
(* search_ipcams                                                           *)
(***************************************************************************)
queries ==
    << "webcam", "camera", "title:\"IP Camera\"", "title:\"Network Camera\"",
       "title:\"Live View\"", "product:\"webcam\"", "port:8080 camera",
       "port:8081 camera" >>

\* the most matches one request asks for
PageCap == 100
\* the limit main passes
MainLimit == 500

\* the matches the service may return
Matches ==
    { \* located, complete
      [ip_str |-> "A", port |-> 80,
       location |-> [latitude |-> Num(45), longitude |-> Num(10),
                     city |-> "Oslo", country_name |-> "Norway"],
       org |-> "Acme", product |-> "cam"],
      \* the same address, other attributes, optional keys absent
      [ip_str |-> "A", port |-> 8080,
       location |-> [latitude |-> Num(50), longitude |-> Num(20)]],
      \* latitude 0: on the equator
      [ip_str |-> "B", port |-> 80,
       location |-> [latitude |-> Num(0), longitude |-> Num(10), city |-> "Quito"]],
      \* no location key
      [ip_str |-> "B", port |-> 80],
      \* latitude key absent
      [ip_str |-> "B", port |-> 80, location |-> [longitude |-> Num(10)]],
      \* longitude null
      [ip_str |-> "B", port |-> 80,
       location |-> [latitude |-> Num(45), longitude |-> Null]],
      \* located, but without ip_str: building the record raises KeyError
      [port |-> 80, location |-> [latitude |-> Num(45), longitude |-> Num(10)]] }

\* result.get('location') and result['location'].get('latitude')
\*   and result['location'].get('longitude')
HasLocationLatOnly(result) ==
    /\ "location" \in DOMAIN result
    /\ Truthy(Get(result.location, "latitude"))
HasLocation(result) ==
    /\ "location" \in DOMAIN result
    /\ Truthy(Get(result.location, "latitude"))
    /\ Truthy(Get(result.location, "longitude"))

\* the subscripts the dict literal evaluates; a missing key raises KeyError
RaisesKeyError(result) ==
    \/ "ip_str" \notin DOMAIN result
    \/ "port" \notin DOMAIN result
    \/ "latitude" \notin DOMAIN result.location
    \/ "longitude" \notin DOMAIN result.location

\* the camera_data dict built from a match
CameraData(result, query) ==
    [ ip        |-> result.ip_str,
      port      |-> result.port,
      latitude  |-> result.location.latitude,
      longitude |-> result.location.longitude,
      country   |-> GetDefault(result.location, "country_name", "Unknown"),
      city      |-> GetDefault(result.location, "city", "Unknown"),
      org       |-> GetDefault(result, "org", "Unknown"),
      product   |-> GetDefault(result, "product", "Unknown"),
      query     |-> query ]

RECURSIVE ProcessMatches(_, _, _)
\* the inner for loop over search_results['matches'], started with the
\* records appended so far: the records appended when it ends, and whether
\* it ended by raising
ProcessMatches(matches, query, acc) ==
    IF matches = <<>> THEN [appended |-> acc, raised |-> FALSE]
    ELSE LET result == Head(matches)
         IN  IF HasLocation(result)
             THEN IF RaisesKeyError(result)
                  THEN [appended |-> acc, raised |-> TRUE]
                  ELSE ProcessMatches(Tail(matches), query,
                                      Append(acc, CameraData(result, query)))
             ELSE ProcessMatches(Tail(matches), query, acc)

\* the responses the service may give to the next request
Responses == {r \in SeqsUpTo(Matches, MaxRaw) : rawTotal + Len(r) <= MaxRaw}

(***************************************************************************)
(* create_map                                                              *)
(***************************************************************************)
RECURSIVE DropDup(_, _)
\* the rows whose ip is not in seen and not that of an earlier row
DropDup(rows, seen) ==
    IF rows = <<>> THEN <<>>
    ELSE IF Head(rows).ip \in seen THEN DropDup(Tail(rows), seen)
    ELSE <<Head(rows)>> \o DropDup(Tail(rows), seen \cup {Head(rows).ip})

Reverse(s) == [j \in 1..Len(s) |-> s[Len(s) + 1 - j]]

\* df.drop_duplicates(subset=['ip']): keep='first' is the default
drop_duplicates_keep_last(rows) == Reverse(DropDup(Reverse(rows), {}))
drop_duplicates(rows) == DropDup(rows, {})

\* Series.mean(): the sum of the non-null values over their number, kept as
\* the exact fraction num/den; NaN (Null) when there is no value
Mean(col) ==
    LET nums == SelectSeq(col, LAMBDA x : x # Null)
    IN  IF nums = <<>> THEN Null
        ELSE [num |-> SumSeq([j \in 1..Len(nums) |-> nums[j].v]), den |-> Len(nums)]

Column(rows, name) == [j \in 1..Len(rows) |-> rows[j][name]]

\* [center_lat, center_lon]: the means of the columns of the deduplicated df
center_of_input(camera, df) ==
    <<Mean(Column(camera, "latitude")), Mean(Column(camera, "longitude"))>>
center(camera, df) ==
    <<Mean(Column(df, "latitude")), Mean(Column(df, "longitude"))>>

\* one folium.Marker per row of df
Marker(row) ==
    [ location |-> <<row.latitude, row.longitude>>,
      popup    |-> <<row.ip, row.port, row.city, row.country, row.org,
                     row.product, row.query>>,
      tooltip  |-> <<row.ip, row.city, row.country>> ]

zoom_start == 2

\* create_map(camera_data): None for no data, else (m, df)
create_map(camera) ==
    IF camera = <<>> THEN Null
    ELSE LET df == drop_duplicates(camera)
         IN  [ m  |-> [ location   |-> center(camera, df),
                        zoom_start |-> zoom_start,
                        markers    |-> [j \in 1..Len(df) |-> Marker(df[j])],
                        heat_data  |-> [j \in 1..Len(df) |->
                                          <<df[j].latitude, df[j].longitude>>],
                        layer_control |-> TRUE ],
               df |-> df ]

\* the record lists a direct call of create_map may pass
Attributes ==
    { [port |-> 80, country |-> "Norway", city |-> "Oslo", org |-> "Acme",
       product |-> "cam", query |-> "webcam"],
      [port |-> 8080, country |-> "Unknown", city |-> "Rome", org |-> "Unknown",
       product |-> "Unknown", query |-> "camera"] }

Coordinates == { <<-90, -180>>, <<90, 180>>, <<120, 10>> }

CameraRecords ==
    { [ip |-> a, port |-> at.port, latitude |-> Num(c[1]), longitude |-> Num(c[2]),
       country |-> at.country, city |-> at.city, org |-> at.org,
       product |-> at.product, query |-> at.query] :
      a \in {"A", "B"}, at \in Attributes, c \in Coordinates }

(***************************************************************************)
(* main                                                                    *)
(***************************************************************************)
map_filename == "ipcam_map.html"
data_filename == "ipcam_data.csv"

\* `if not camera_data` in main
NoCameraDataNever(camera) == FALSE
NoCameraData(camera) == camera = <<>>

(***************************************************************************)
(* The state after construction: the caller has picked the function and    *)
(* its arguments, nothing has run.                                         *)
(***************************************************************************)
Init ==
    /\ entry \in {"main", "search_ipcams", "create_map"}
    /\ envFile \in EnvFiles
    /\ entry # "main" => envFile = Absent
    /\ api_key = IF entry = "search_ipcams" THEN Str("k1") ELSE Null
    /\ resultLimit \in 0..MaxLimit
    /\ (entry = "search_ipcams") = (resultLimit >= 1)
    /\ limit = resultLimit
    /\ qi = 1
    /\ results = <<>>
    /\ last = Null
    /\ issued = 0
    /\ rawTotal = 0
    /\ allRaised = TRUE
    /\ honoured = TRUE
    /\ camera_data \in SeqsUpTo(CameraRecords, MaxRecs)
    /\ entry # "create_map" => camera_data = <<>>
    /\ ret = Null
    /\ files = {}
    /\ invoked = IF entry = "main" THEN {} ELSE {entry}
    /\ pc = CASE entry = "main" -> "load_api_key"
              [] entry = "search_ipcams" -> "search"
              [] OTHER -> "create_map"

\* main, lines 121-128: load the key; without one print the error and
\* return, with one call search_ipcams(api_key, limit=500)
MainLoadApiKey ==
    /\ pc = "load_api_key"
    /\ LET k == load_api_key(envFile)
       IN  /\ api_key' = k
           /\ IF NoApiKey(k)
              THEN /\ pc' = "done"
                   /\ invoked' = invoked \cup {"load_api_key"}
                   /\ UNCHANGED <<resultLimit, limit>>
              ELSE /\ pc' = "search"
                   /\ invoked' = invoked \cup {"load_api_key", "search_ipcams"}
                   /\ resultLimit' = MainLimit
                   /\ limit' = MainLimit
    /\ UNCHANGED <<entry, envFile, qi, results, last, issued, rawTotal, allRaised,
                   honoured, camera_data, ret, files>>

\* one iteration of the for loop whose api.search raises: the except
\* clause prints and continues
SearchRequestRaises ==
    /\ pc = "search"
    /\ qi <= Len(queries)
    /\ last' = [query |-> queries[qi], limit |-> Min(PageCap, limit),
                matches |-> <<>>, raised |-> "request"]
    /\ issued' = issued + 1
    /\ qi' = qi + 1
    /\ UNCHANGED <<entry, pc, envFile, api_key, resultLimit, limit, results, rawTotal,
                   allRaised, honoured, camera_data, ret, files, invoked>>

\* one iteration of the for loop whose api.search returns matches
SearchQuery(matches) ==
    /\ pc = "search"
    /\ qi <= Len(queries)
    /\ LET p == ProcessMatches(matches, queries[qi], results)
       IN  /\ results' = p.appended
           /\ last' = [query |-> queries[qi], limit |-> Min(PageCap, limit),
                       matches |-> matches,
                       raised |-> IF p.raised THEN "processing" ELSE "no"]
           /\ allRaised' = (allRaised /\ p.raised)
           /\ IF p.raised
              THEN \* except: print, continue
                   /\ qi' = qi + 1
                   /\ UNCHANGED <<limit, pc>>
              ELSE /\ limit' = limit - Len(matches)
                   /\ IF limit' <= 0
                      THEN \* break
                           /\ pc' = "search_return"
                           /\ qi' = qi
                      ELSE /\ qi' = qi + 1
                           /\ pc' = pc
    /\ issued' = issued + 1
    /\ rawTotal' = rawTotal + Len(matches)
    /\ honoured' = (honoured /\ Len(matches) <= Min(PageCap, limit))
    /\ UNCHANGED <<entry, envFile, api_key, resultLimit, camera_data, ret, files,
                   invoked>>

\* the for loop is over, by exhaustion or by break
LoopOver == pc = "search_return" \/ (pc = "search" /\ qi > Len(queries))

\* a direct call of search_ipcams returns results
SearchReturn ==
    /\ entry = "search_ipcams"
    /\ LoopOver
    /\ camera_data' = results
    /\ pc' = "done"
    /\ UNCHANGED <<entry, envFile, api_key, resultLimit, limit, qi, results, last,
                   issued, rawTotal, allRaised, honoured, ret, files, invoked>>

\* main, lines 128-147: search_ipcams returned; without camera data print and
\* return; else create_map, unpack its value (TypeError on None), save the
\* map and the data
MainRender ==
    /\ entry = "main"
    /\ LoopOver
    /\ camera_data' = results
    /\ IF NoCameraData(results)
       THEN /\ pc' = "done"
            /\ UNCHANGED <<ret, files, invoked>>
       ELSE /\ ret' = create_map(results)
            /\ invoked' = invoked \cup {"create_map"}
            /\ IF ret' = Null
               THEN pc' = "crashed" /\ UNCHANGED files
               ELSE /\ pc' = "done"
                    /\ files' = {<<map_filename, ret'.m>>, <<data_filename, ret'.df>>}
    /\ UNCHANGED <<entry, envFile, api_key, resultLimit, limit, qi, results, last,
                   issued, rawTotal, allRaised, honoured>>

\* a direct call of create_map(camera_data)
CreateMap ==
    /\ pc = "create_map"
    /\ ret' = create_map(camera_data)
    /\ pc' = "done"
    /\ UNCHANGED <<entry, envFile, api_key, resultLimit, limit, qi, results, last,
                   issued, rawTotal, allRaised, honoured, camera_data, files, invoked>>

Next ==
    \/ MainLoadApiKey
    \/ SearchRequestRaises
    \/ \E matches \in Responses : SearchQuery(matches)
    \/ SearchReturn
    \/ MainRender
    \/ CreateMap

Spec == Init /\ [][Next]_vars

(***************************************************************************)
(* Notions the properties use.                                             *)
(***************************************************************************)
\* the number of entries of a sequence that satisfy P
CountSeq(s, P(_)) == Cardinality({j \in 1..Len(s) : P(s[j])})

\* the match carries a location with latitude and longitude present and non-null
BothCoordinates(result) ==
    /\ "location" \in DOMAIN result
    /\ "latitude" \in DOMAIN result.location
    /\ result.location.latitude # Null
    /\ "longitude" \in DOMAIN result.location
    /\ result.location.longitude # Null

\* the records of results whose source query is that of the latest call
FromLast(r) == r.query = last.query

\* the matches the service had returned before the latest call
RawBeforeLast == rawTotal - Len(last.matches)

\* C1: a query whose execution raises, during the request or while its
\* matches are processed, contributes no record: right after it, results
\* holds no record whose source query is that query.
C1_RaisingQueryContributesNothing ==
    (last # Null /\ last.raised # "no") => CountSeq(results, FromLast) = 0

\* C2: once the matches returned by the requests made so far reach the
\* limit L, no further request is made: every request was made while the
\* matches returned before it were fewer than L.
C2_NoRequestOnceLimitReached ==
    last # Null => RawBeforeLast < resultLimit

\* C3: a query that raises never aborts collection: the loop goes on with
\* the next query, and when every query raised, search_ipcams returns the
\* empty sequence after having attempted all the queries.
C3_FailureNeverAborts ==
    /\ (last # Null /\ last.raised # "no") =>
           (pc \in {"search", "done"} /\ qi = issued + 1)
    /\ (entry = "search_ipcams" /\ pc = "done" /\ allRaised) =>
           (camera_data = <<>> /\ issued = Len(queries))

\* C3, the part the code keeps: a step of the loop only appends to results,
\* and a query that raised leaves the loop at the next query.
C3_RecordsKeptAndLoopContinues ==
    [][ /\ Len(results) <= Len(results')
        /\ SubSeq(results', 1, Len(results)) = results
        /\ (last' # last /\ last'.raised # "no") => (pc' = "search" /\ qi' = qi + 1)
      ]_vars

\* C4: every returned match with latitude and longitude present and
\* non-null, whatever their values, and with ip_str and port, yields exactly
\* one record: a query that completes adds as many records as it returned
\* such matches.
C4_EveryLocatedMatchYieldsOneRecord ==
    (last # Null /\ last.raised = "no") =>
        CountSeq(results, FromLast) =
            CountSeq(last.matches,
                     LAMBDA m : /\ BothCoordinates(m)
                                /\ "ip_str" \in DOMAIN m
                                /\ "port" \in DOMAIN m)

\* C5: a match without location, or whose location lacks latitude or
\* longitude (absent or null), never produces a record: every record has
\* both coordinates non-null and comes from a match of its query that has
\* both, and results never holds more records than matches were returned.
C5_UnlocatedMatchNeverRecorded ==
    /\ \A j \in 1..Len(results) :
           results[j].latitude # Null /\ results[j].longitude # Null
    /\ Len(results) <= rawTotal
    /\ last # Null =>
          /\ CountSeq(results, FromLast) <= CountSeq(last.matches, BothCoordinates)
          /\ \A j \in 1..Len(results) :
                FromLast(results[j]) =>
                    \E i \in 1..Len(last.matches) :
                        /\ BothCoordinates(last.matches[i])
                        /\ results[j].latitude = last.matches[i].location.latitude
                        /\ results[j].longitude = last.matches[i].location.longitude

\* C5 witness: a completed query returned a match without location next to
\* a located one, and only the located one was recorded.
C5_Witness ==
    /\ last # Null
    /\ last.raised = "no"
    /\ \E i \in 1..Len(last.matches) : "location" \notin DOMAIN last.matches[i]
    /\ \E i \in 1..Len(last.matches) : BothCoordinates(last.matches[i])
    /\ CountSeq(results, FromLast) = 1

\* the index of the first record of rows with address a
FirstIndex(rows, a) ==
    CHOOSE j \in 1..Len(rows) :
        rows[j].ip = a /\ \A i \in 1..(j - 1) : rows[i].ip # a

Addresses(rows) == {rows[j].ip : j \in 1..Len(rows)}

\* C6: for a non-empty input with k distinct addresses the deduplicated
\* table has k rows, one per address, in order of first appearance, each
\* equal in every attribute to the first input record with its address.
C6_DedupKeepsFirstPerAddress ==
    ret # Null =>
        /\ Len(ret.df) = Cardinality(Addresses(camera_data))
        /\ Addresses(ret.df) = Addresses(camera_data)
        /\ \A j \in 1..Len(ret.df) :
              ret.df[j] = camera_data[FirstIndex(camera_data, ret.df[j].ip)]
        /\ \A i, j \in 1..Len(ret.df) :
              i < j => FirstIndex(camera_data, ret.df[i].ip)
                         < FirstIndex(camera_data, ret.df[j].ip)

\* C6 witness: create_map has run on three records, the first and the third
\* with one address and different attributes.
C6_Witness ==
    /\ ret # Null
    /\ Len(camera_data) = 3
    /\ camera_data[1].ip = camera_data[3].ip
    /\ camera_data[1].ip # camera_data[2].ip
    /\ camera_data[1].city # camera_data[3].city
    /\ Len(ret.df) = 2

\* the .env file is there and holds no SHODAN_API_KEY line
NoKeyLine(f) == f # Absent /\ \A j \in 1..Len(f) : f[j][1] # "SHODAN_API_KEY"

\* C7: in main, with the credential file absent, or present without a
\* SHODAN_API_KEY line, search_ipcams is never invoked, no request is made,
\* create_map is never invoked and no file is written.
C7_NoKeyAbortsBeforeCollection ==
    (entry = "main" /\ (envFile = Absent \/ NoKeyLine(envFile))) =>
        /\ "search_ipcams" \notin invoked
        /\ issued = 0
        /\ "create_map" \notin invoked
        /\ files = {}
        /\ pc \in {"load_api_key", "done"}

\* C7 witness: main has returned on a credential file of other lines only.
C7_Witness ==
    /\ entry = "main"
    /\ pc = "done"
    /\ NoKeyLine(envFile)
    /\ Len(envFile) >= 1
    /\ "load_api_key" \in invoked

\* C8: when collection returns no record main does not invoke create_map
\* and writes no file; create_map called on an empty sequence returns None;
\* main writes a file only in a run whose collection returned a record.
C8_EmptyCollectionWritesNothing ==
    /\ (entry = "main" /\ results = <<>>) =>
           ("create_map" \notin invoked /\ files = {} /\ pc # "crashed")
    /\ (entry = "create_map" /\ pc = "done" /\ camera_data = <<>>) => ret = Null
    /\ files # {} => (entry = "main" /\ results # <<>> /\ camera_data = results)

\* C8 witness: main has returned after a collection in which every query
\* was attempted and matches came back, none of them located.
C8_Witness ==
    /\ entry = "main"
    /\ pc = "done"
    /\ issued = Len(queries)
    /\ rawTotal >= 1
    /\ results = <<>>

\* C9: every request asks for min(100, L - matches returned before it), so
\* when no response held more matches than asked for, the matches returned
\* over the whole collection never exceed L.
C9_RequestsBoundedByRemainingLimit ==
    /\ last # Null => last.limit = Min(PageCap, resultLimit - RawBeforeLast)
    /\ honoured => rawTotal <= resultLimit

\* the sum of the function f over the finite set S
RECURSIVE SumOver(_, _)
SumOver(S, f) ==
    IF S = {} THEN 0
    ELSE LET x == CHOOSE y \in S : TRUE IN f[x] + SumOver(S \ {x}, f)

\* the fraction c is the mean of field name of rows at the indices in S
IsMeanOver(c, rows, name, S) ==
    c.num * Cardinality(S) = c.den * SumOver(S, [j \in 1..Len(rows) |-> rows[j][name].v])

\* the indices of the records that are the first with their address
FirstIndices(rows) == {FirstIndex(rows, a) : a \in Addresses(rows)}

InRange(rows) ==
    \A j \in 1..Len(rows) :
        /\ rows[j].latitude.v \in -90..90
        /\ rows[j].longitude.v \in -180..180

CenterInRange(c) ==
    /\ -90 * c[1].den <= c[1].num /\ c[1].num <= 90 * c[1].den
    /\ -180 * c[2].den <= c[2].num /\ c[2].num <= 180 * c[2].den

CenterIsMeanOver(rows, S) ==
    /\ IsMeanOver(ret.m.location[1], rows, "latitude", S)
    /\ IsMeanOver(ret.m.location[2], rows, "longitude", S)

\* C10 as stated: the center is the mean over the deduplicated records, it
\* equals the mean of the input coordinates, and it lies in range when the
\* input does.
C10_CenterIsMeanOfInput ==
    ret # Null =>
        /\ CenterIsMeanOver(camera_data, FirstIndices(camera_data))
        /\ CenterIsMeanOver(camera_data, 1..Len(camera_data))
        /\ InRange(camera_data) => CenterInRange(ret.m.location)

\* C10 amended: the center is the mean over the deduplicated records (each
\* address once, with its first-seen coordinates); it equals the mean of
\* the input coordinates when no address occurs twice in the input; it lies
\* in range when the input does.
C10_CenterIsMeanOfDeduplicated ==
    ret # Null =>
        /\ CenterIsMeanOver(camera_data, FirstIndices(camera_data))
        /\ Cardinality(Addresses(camera_data)) = Len(camera_data) =>
               CenterIsMeanOver(camera_data, 1..Len(camera_data))
        /\ InRange(camera_data) => CenterInRange(ret.m.location)

\* C10 witness: create_map has run on in-range records with a repeated
\* address, and the mean over all of them is not the center.
C10_Witness ==
    /\ ret # Null
    /\ Cardinality(Addresses(camera_data)) < Len(camera_data)
    /\ InRange(camera_data)
    /\ ~CenterIsMeanOver(camera_data, 1..Len(camera_data))

====
